---- MODULE Spec2Model ----
(***************************************************************************)
(* Model of usb_cable_chk.py (class USBCableTester).                       *)
(*                                                                         *)
(* Texts are sequences of symbols.  A symbol is one character, except      *)
(* where a whole word is all the code looks at (the dmesg keywords, the    *)
(* BULK marker, the "mtp://" separator).  The log file written by log()    *)
(* is write-only for the program and is not part of the state.             *)
(*                                                                         *)
(* pc is the position in run_complete_test.  Besides the program's own     *)
(* data (test_results, the locals of the probes, the files in /tmp) the    *)
(* state keeps four history variables: writes counts the assignments to    *)
(* each key of test_results, trace lists the operations in the order they  *)
(* started, signal tells whether a command of the probe in progress gave a *)
(* usable result, last_run is what a caller of run_cmd got back.           *)
(* The polling loop of usb_stability_test is bounded by wall-clock time,   *)
(* so it may stop after any number of polls.                               *)
(***************************************************************************)
EXTENDS Integers, Sequences, FiniteSets, TLC

VARIABLES pc, test_results, writes, trace, signal, last_run, lsusb,
          base_dmesg, error_count, polls,
          device_name, i, success, speeds, expected_hash, files, remove_asked,
          report

vars == <<pc, test_results, writes, trace, signal, last_run, lsusb,
          base_dmesg, error_count, polls,
          device_name, i, success, speeds, expected_hash, files, remove_asked,
          report>>

(* ------------------------------ bounds --------------------------------- *)
MaxPolls      == 2   \* iterations of the 4 s polling loop that are explored
MaxLineLen    == 4   \* characters after "bcdUSB " on one lsusb line
MaxLsusbLines == 2   \* lines of lsusb output in the multi-line inputs
MaxUsbDevices == 3   \* device directories found under /sys/bus/usb/devices
MaxDmesgWords == 1   \* words of one dmesg snapshot
MaxPinWords   == 2   \* words of the endpoint listing
MaxCountLen   == 2   \* characters of the grep -c output
MaxGioLen     == 3   \* symbols of the gio mount listing
MaxExitCode   == 2   \* exit codes 0..MaxExitCode
FileLen       == 2   \* bytes of the test file (stands for TEST_FILE_SIZE)

(* --------------------------- program constants ------------------------- *)
TEST_CYCLES    == 5
DeviceLimit    == 5
Tier3Mbps      == 400
Tier2Mbps      == 200
Tier1Mbps      == 50
PremiumPercent == 85
CertPercent    == 67
RowCount       == 6

(* status glyphs *)
Star1   == "STAR1"     \* "⭐ (1/3)"
Star2   == "STAR2"     \* "⭐⭐ (2/3)"
Star3   == "STAR3"     \* "⭐⭐⭐ (3/3)"
Pass    == "PASS"      \* "✅"
Warn    == "WARN"      \* "⚠️"
Fail    == "FAIL"      \* "❌"
Unknown == "UNKNOWN"   \* "❓"

Keys == {"usb_version", "power", "speed", "stability", "pinout", "quality"}

(* ------------------------------ text helpers --------------------------- *)
SeqsUpTo(S, n) == UNION {[1..k -> S] : k \in 0..n}

StartsWith(s, p) == Len(s) >= Len(p) /\ SubSeq(s, 1, Len(p)) = p

Contains(s, p) == \E k \in 1..(Len(s) - Len(p) + 1) : SubSeq(s, k, k + Len(p) - 1) = p

\* index of the first element of s that lies in S, or Len(s)+1
FirstIn(s, S) ==
  IF \E k \in 1..Len(s) : s[k] \in S
  THEN CHOOSE k \in 1..Len(s) : s[k] \in S /\ \A j \in 1..(k-1) : s[j] \notin S
  ELSE Len(s) + 1

\* index of the first element of s that lies outside S, or Len(s)+1
FirstNotIn(s, S) ==
  IF \E k \in 1..Len(s) : s[k] \notin S
  THEN CHOOSE k \in 1..Len(s) : s[k] \notin S /\ \A j \in 1..(k-1) : s[j] \in S
  ELSE Len(s) + 1

RECURSIVE SumSeq(_)
SumSeq(s) == IF s = <<>> THEN 0 ELSE s[1] + SumSeq(Tail(s))

\* f"{num/den:.0f}": round to nearest, ties to even
RoundHalfEven(num, den) ==
  LET q == num \div den
      r == num % den
  IN  IF 2 * r < den THEN q
      ELSE IF 2 * r > den THEN q + 1
      ELSE IF q % 2 = 0 THEN q ELSE q + 1

Put(d, k, v) == [x \in (DOMAIN d) \cup {k} |-> IF x = k THEN v ELSE d[x]]

(* ------------------------------ run_cmd -------------------------------- *)
TimeoutOutcome == [kind |-> "timeout"]

ExitOutcomes(stdouts) ==
  [kind : {"exit"}, returncode : 0..MaxExitCode, stdout : stdouts, stderr : {"", "err"}]

Outcomes(stdouts) == {TimeoutOutcome} \cup ExitOutcomes(stdouts)

CompletedProcess(rc, out, err) == [returncode |-> rc, stdout |-> out, stderr |-> err]

\* subprocess.run raises TimeoutExpired -> synthetic result; otherwise the
\* process's own result, whatever its exit code and whatever `check` is
run_cmd_TimeoutAsSuccess(o, check) ==
  IF o.kind = "timeout"
  THEN CompletedProcess(0, <<>>, "Timeout")
  ELSE CompletedProcess(o.returncode, o.stdout, o.stderr)

run_cmd(o, check) ==
  IF o.kind = "timeout"
  THEN CompletedProcess(1, <<>>, "Timeout")
  ELSE CompletedProcess(o.returncode, o.stdout, o.stderr)

Ran(o, check) == [outcome |-> o, check |-> check, result |-> run_cmd(o, check)]

NoRun == [outcome |-> [kind |-> "none"], check |-> FALSE, result |-> CompletedProcess(0, <<>>, "")]

\* a result that is not "no usable signal": neither the synthetic timeout
\* result nor a non-zero exit with empty output
Usable(r) == ~(r.returncode # 0 /\ r.stdout = <<>>)

Store(k, v) ==
  /\ test_results' = Put(test_results, k, v)
  /\ writes' = [writes EXCEPT ![k] = @ + 1]

(* ------------------------------ Init ----------------------------------- *)
Init ==
  /\ pc = "version"
  /\ test_results = <<>>
  /\ writes = [k \in Keys |-> 0]
  /\ trace = <<>>
  /\ signal = FALSE
  /\ last_run = NoRun
  /\ lsusb = <<>>
  /\ base_dmesg = <<>>
  /\ error_count = 0
  /\ polls = 0
  /\ device_name = <<>>
  /\ i = 0
  /\ success = 0
  /\ speeds = <<>>
  /\ expected_hash = 0
  /\ files = <<>>
  /\ remove_asked = FALSE
  /\ report = <<>>

stabVars  == <<lsusb, base_dmesg, error_count, polls>>
speedVars == <<device_name, i, success, speeds, expected_hash, files, remove_asked>>

(* ------------------------- detect_usb_version -------------------------- *)
Digits == {"0", "1", "2", "3"}
LineChars == Digits \cup {".", "x"}

\* re.search(r'bcdUSB\s+(\d+\.\d+)') on one line, the line being what follows
\* "bcdUSB" and its blanks: the leading digits, a dot, the following digits
TokenOf(line) ==
  LET n == FirstNotIn(line, Digits) - 1
      rest == SubSeq(line, n + 2, Len(line))
      m == FirstNotIn(rest, Digits) - 1
  IN  IF n >= 1 /\ n + 1 <= Len(line) /\ line[n + 1] = "." /\ m >= 1
      THEN SubSeq(line, 1, n + 1 + m)
      ELSE <<>>

\* the first match in the whole output, <<>> when nothing matches
ver_match(text) ==
  LET hits == {k \in 1..Len(text) : TokenOf(text[k]) # <<>>}
  IN  IF hits = {} THEN <<>>
      ELSE TokenOf(text[CHOOSE k \in hits : \A j \in hits : k <= j])

\* mutant: the "2." rule looks anywhere in the token, not at its start
ClassifyVersion_TwoAnywhere(ver) ==
  IF Contains(ver, <<"2", ".">>)
  THEN [value |-> <<"USB 2.0">>, status |-> Star1]
  ELSE IF Contains(ver, <<"3", ".", "2">>)
  THEN [value |-> <<"USB 3.2 Gen 2x2">>, status |-> Star3]
  ELSE IF Contains(ver, <<"3", ".", "1">>)
  THEN [value |-> <<"USB 3.2 Gen 2">>, status |-> Star2]
  ELSE IF Contains(ver, <<"3", ".", "0">>)
  THEN [value |-> <<"USB 3.2 Gen 1">>, status |-> Star2]
  ELSE [value |-> <<"USB ">> \o ver, status |-> Warn]

ClassifyVersion(ver) ==
  IF StartsWith(ver, <<"2", ".">>)
  THEN [value |-> <<"USB 2.0">>, status |-> Star1]
  ELSE IF Contains(ver, <<"3", ".", "2">>) \/ Contains(ver, <<"3", ".", "2", "0">>)
  THEN [value |-> <<"USB 3.2 Gen 2x2">>, status |-> Star3]
  ELSE IF Contains(ver, <<"3", ".", "1">>) \/ Contains(ver, <<"3", ".", "1", "0">>)
  THEN [value |-> <<"USB 3.2 Gen 2">>, status |-> Star2]
  ELSE IF Contains(ver, <<"3", ".", "0">>)
  THEN [value |-> <<"USB 3.2 Gen 1">>, status |-> Star2]
  ELSE [value |-> <<"USB ">> \o ver, status |-> Warn]

VersionResult(text) ==
  IF ver_match(text) # <<>>
  THEN ClassifyVersion(ver_match(text))
  ELSE [value |-> <<"Unknown">>, status |-> Unknown]

RunLines == { <<"2", ".", "0", "1">>, <<"3", ".", "2", "0">>, <<"3", ".", "1", "0">>,
              <<"3", ".", "0", "0">>, <<"1", ".", "1", "0">>, <<"x">> }

AllLines == SeqsUpTo(LineChars, MaxLineLen)

RunLsusbOut == SeqsUpTo(RunLines, 1)

AllLsusbOut == SeqsUpTo(AllLines, 1) \cup SeqsUpTo(RunLines, MaxLsusbLines)

\* the lsusb command and its captured output
DetectUsbVersion(stdouts) ==
  /\ pc = "version"
  /\ \E o \in Outcomes(stdouts) :
       LET r == run_cmd(o, FALSE) IN
       /\ signal' = Usable(r)
       /\ lsusb' = r.stdout
  /\ trace' = Append(trace, "usb_version")
  /\ pc' = "version_store"
  /\ UNCHANGED <<test_results, writes, last_run, base_dmesg, error_count, polls, speedVars, report>>

\* the match, the classification and the write of the key
DetectUsbVersionStore ==
  /\ pc = "version_store"
  /\ Store("usb_version", VersionResult(lsusb))
  /\ lsusb' = <<>>
  /\ pc' = "power"
  /\ UNCHANGED <<trace, signal, last_run, base_dmesg, error_count, polls, speedVars, report>>

(* ------------------------- detect_power_sysfs -------------------------- *)
\* one candidate directory: no power dir, control unreadable, or its content
DeviceKinds == {"nodir", "unreadable", "on", "auto"}

RECURSIVE PowerScan(_)
PowerScan(devs) ==
  IF devs = <<>> THEN [value |-> "500mA", status |-> Star1]
  ELSE IF devs[1] = "on" THEN [value |-> "900mA", status |-> Star2]
  ELSE PowerScan(Tail(devs))

PowerResult(found) ==
  PowerScan(SubSeq(found, 1, IF Len(found) < DeviceLimit THEN Len(found) ELSE DeviceLimit))

DetectPowerSysfs ==
  /\ pc = "power"
  /\ \E found \in SeqsUpTo(DeviceKinds, MaxUsbDevices) : Store("power", PowerResult(found))
  /\ trace' = Append(trace, "power")
  /\ pc' = "stability"
  /\ UNCHANGED <<signal, last_run, stabVars, speedVars, report>>

(* ------------------------- usb_stability_test -------------------------- *)
errors == <<"disconnect", "reset", "over_current", "error">>

DmesgWords == {"usb", "RESET"}

Lower(w) == IF w = "RESET" THEN "reset" ELSE w

lower(text) == [k \in 1..Len(text) |-> Lower(text[k])]

HasWord(text, w) == \E k \in 1..Len(text) : text[k] = w

DmesgTexts == SeqsUpTo(DmesgWords, MaxDmesgWords)

\* the for-loop over errors for one snapshot
NewErrors(current, base) ==
  Cardinality({k \in 1..Len(errors) : HasWord(current, errors[k]) /\ ~HasWord(base, errors[k])})

StabilityBase ==
  /\ pc = "stability"
  /\ \E o \in Outcomes(DmesgTexts) :
       LET r == run_cmd(o, FALSE) IN
       /\ signal' = Usable(r)
       /\ base_dmesg' = lower(r.stdout)
  /\ error_count' = 0
  /\ polls' = 0
  /\ trace' = Append(trace, "stability")
  /\ pc' = "stab_poll"
  /\ UNCHANGED <<test_results, writes, last_run, lsusb, speedVars, report>>

StabilityPoll ==
  /\ pc = "stab_poll"
  /\ polls < MaxPolls
  /\ \E o \in Outcomes(DmesgTexts) :
       LET r == run_cmd(o, FALSE) IN
       /\ signal' = (signal \/ Usable(r))
       /\ error_count' = error_count + NewErrors(lower(r.stdout), base_dmesg)
  /\ polls' = polls + 1
  /\ UNCHANGED <<pc, test_results, writes, trace, last_run, lsusb, base_dmesg, speedVars, report>>

StabilityResult(n) ==
  [value |-> <<n, " Errors">>, status |-> IF n = 0 THEN Pass ELSE Fail]

StabilityEnd ==
  /\ pc = "stab_poll"
  /\ Store("stability", StabilityResult(error_count))
  /\ base_dmesg' = <<>>
  /\ error_count' = 0
  /\ polls' = 0
  /\ pc' = "pinout"
  /\ UNCHANGED <<trace, signal, last_run, lsusb, speedVars, report>>

(* ------------------------- check_pinout_data --------------------------- *)
PinWords == {"BULK", "INTERRUPT"}

PinTexts == SeqsUpTo(PinWords, MaxPinWords)

PinoutResult(endpoints) ==
  IF HasWord(endpoints, "BULK")
  THEN [value |-> "OK", status |-> Pass]
  ELSE [value |-> "Power-only?", status |-> Warn]

CheckPinoutData ==
  /\ pc = "pinout"
  /\ \E o \in Outcomes(PinTexts) :
       LET r == run_cmd(o, FALSE) IN
       /\ signal' = Usable(r)
       /\ Store("pinout", PinoutResult(r.stdout))
  /\ trace' = Append(trace, "pinout")
  /\ pc' = "quality"
  /\ UNCHANGED <<last_run, stabVars, speedVars, report>>

(* ------------------------- estimate_cable_quality ---------------------- *)
DecDigits == {"0", "1", "2", "3", "4", "5", "6", "7", "8", "9"}
Blanks == {" ", "\n"}
CountChars == {"2", "\n", "x"}

CountTexts == SeqsUpTo(CountChars, MaxCountLen)

\* str.strip(): blanks removed at both ends
RECURSIVE rstripIn(_, _)
rstripIn(s, S) ==
  IF s # <<>> /\ s[Len(s)] \in S THEN rstripIn(SubSeq(s, 1, Len(s) - 1), S) ELSE s

strip(s) == rstripIn(SubSeq(s, FirstNotIn(s, Blanks), Len(s)), Blanks)

isdigit(s) == s # <<>> /\ \A k \in 1..Len(s) : s[k] \in DecDigits

DigitVal(c) == CHOOSE n \in 0..9 : c = <<"0", "1", "2", "3", "4", "5", "6", "7", "8", "9">>[n + 1]

RECURSIVE int(_)
int(s) == IF s = <<>> THEN 0 ELSE 10 * int(SubSeq(s, 1, Len(s) - 1)) + DigitVal(s[Len(s)])

QualityResult(stdout) ==
  LET configs == IF isdigit(strip(stdout)) THEN int(strip(stdout)) ELSE 1
  IN  [value |-> <<configs, " Configs">>, status |-> IF configs >= 2 THEN Pass ELSE Warn]

EstimateCableQuality ==
  /\ pc = "quality"
  /\ \E o \in Outcomes(CountTexts) :
       LET r == run_cmd(o, FALSE) IN
       /\ signal' = Usable(r)
       /\ Store("quality", QualityResult(r.stdout))
  /\ trace' = Append(trace, "quality")
  /\ pc' = "kill_gvfs"
  /\ UNCHANGED <<last_run, stabVars, speedVars, report>>

(* ------------------------------ kill_gvfs ------------------------------ *)
\* two pkill invocations, their results dropped
KillGvfs ==
  /\ pc = "kill_gvfs"
  /\ \E o1 \in Outcomes({<<>>}), o2 \in Outcomes({<<>>}) :
       run_cmd(o1, FALSE).stdout = <<>> /\ run_cmd(o2, FALSE).stdout = <<>>
  /\ signal' = FALSE
  /\ trace' = Append(trace, "kill_gvfs")
  /\ pc' = "confirm"
  /\ UNCHANGED <<test_results, writes, last_run, stabVars, speedVars, report>>

\* mutant: the discovery starts without waiting for the user
Confirm_NoWait ==
  /\ pc = "confirm"
  /\ pc' = "find_mtp"
  /\ UNCHANGED <<test_results, writes, trace, signal, last_run, stabVars, speedVars, report>>

\* input("Press ENTER when ready... ")
Confirm ==
  /\ pc = "confirm"
  /\ trace' = Append(trace, "input")
  /\ pc' = "find_mtp"
  /\ UNCHANGED <<test_results, writes, signal, last_run, stabVars, speedVars, report>>

(* ---------------------------- find_mtp_device -------------------------- *)
\* M is the separator "mtp://", Q the quote ', W a blank, S a slash
GioChars == {"M", "Q", "W", "S", "a"}

\* what grep 'mtp://' can print: nothing, or text holding the separator
GioTexts == {t \in SeqsUpTo(GioChars, MaxGioLen) : t = <<>> \/ \E k \in 1..Len(t) : t[k] = "M"}

\* text.split(sep)[1]: what lies between the first and the second separator
SplitSecond(text, sep) ==
  LET after == SubSeq(text, FirstIn(text, {sep}) + 1, Len(text))
  IN  SubSeq(after, 1, FirstIn(after, {sep}) - 1)

\* text.split(sep)[0]
SplitFirst(text, sep) == SubSeq(text, 1, FirstIn(text, {sep}) - 1)

\* text.split()[0]: the first run of non-blank symbols
FirstWord(text) ==
  LET from == SubSeq(text, FirstNotIn(text, {"W"}), Len(text))
  IN  SubSeq(from, 1, FirstIn(from, {"W"}) - 1)

\* the two subscripts [1] and [0] that can raise IndexError
MtpParseRaises(text) ==
  \/ FirstIn(text, {"M"}) > Len(text)
  \/ FirstWord(SplitFirst(SplitSecond(text, "M"), "Q")) = <<>>

device_path(text) == rstripIn(FirstWord(SplitFirst(SplitSecond(text, "M"), "Q")), {"S"})

NoMtp == [value |-> <<"No MTP">>, status |-> Unknown]

\* mutant: the else branch stores nothing
StoreSentinel_Omitted == UNCHANGED <<test_results, writes>>

\* the else branch of run_complete_test
StoreSentinel == Store("speed", NoMtp)

\* find_mtp_device and the branch of run_complete_test on its result
FindMtpDevice ==
  /\ pc = "find_mtp"
  /\ \E o \in Outcomes(GioTexts) :
       LET r == run_cmd(o, FALSE) IN
       /\ IF r.stdout = <<>>
          THEN /\ StoreSentinel
               /\ trace' = trace \o <<"find_mtp", "no_mtp">>
               /\ pc' = "render"
               /\ UNCHANGED device_name
          ELSE IF MtpParseRaises(r.stdout)
          THEN /\ trace' = Append(trace, "find_mtp")
               /\ pc' = "aborted"
               /\ UNCHANGED <<test_results, writes, device_name>>
          ELSE IF device_path(r.stdout) = <<>>
          THEN /\ StoreSentinel
               /\ trace' = trace \o <<"find_mtp", "no_mtp">>
               /\ pc' = "render"
               /\ UNCHANGED device_name
          ELSE /\ device_name' = device_path(r.stdout)
               /\ trace' = Append(trace, "find_mtp")
               /\ pc' = "speed"
               /\ UNCHANGED <<test_results, writes>>
  /\ UNCHANGED <<signal, last_run, stabVars, i, success, speeds, expected_hash, files, remove_asked, report>>

(* --------------------------- transfer_speed_test ----------------------- *)
Bytes == {0, 1}

\* os.urandom(TEST_FILE_SIZE)
AllData == [1..FileLen -> Bytes]

\* what a download can leave at the ".check" path: nothing, or a file
Absent == <<"absent">>
AllChecks == {Absent} \cup {<<"file", c>> : c \in SeqsUpTo(Bytes, FileLen)}

\* measured Mbps of a verified cycle
AllSpeeds == {Tier1Mbps, Tier2Mbps, Tier3Mbps, 2 * Tier3Mbps}

RunData == {[k \in 1..FileLen |-> 0]}
RunChecks == {Absent, <<"file", [k \in 1..FileLen |-> 0]>>, <<"file", [k \in 1..FileLen |-> 1]>>}
RunSpeeds == {2 * Tier3Mbps}

\* hashlib.sha256(...).hexdigest(): a digest without collisions on the files
\* explored (positional code with non-zero digits)
RECURSIVE sha256(_)
sha256(d) == IF d = <<>> THEN 0 ELSE (d[1] + 1) + (Cardinality(Bytes) + 1) * sha256(Tail(d))

test_file(c) == <<"bin", c>>
check_file(c) == <<"check", c>>

Unlink(fs, names) == [f \in (DOMAIN fs) \ names |-> fs[f]]

TransferSpeedTest ==
  /\ pc = "speed"
  /\ success' = 0
  /\ speeds' = <<>>
  /\ i' = 0
  /\ trace' = Append(trace, "speed")
  /\ pc' = "cycle"
  /\ UNCHANGED <<test_results, writes, signal, last_run, stabVars, device_name,
                 expected_hash, files, remove_asked, report>>

\* loop head with another cycle to run: generate, hash, write the file
BeginCycle(datas) ==
  /\ pc = "cycle"
  /\ i < TEST_CYCLES
  /\ \E data \in datas :
       /\ expected_hash' = sha256(data)
       /\ files' = Put(files, test_file(i), data)
  /\ remove_asked' = FALSE
  /\ pc' = "upload"
  /\ UNCHANGED <<test_results, writes, trace, signal, last_run, stabVars, device_name,
                 i, success, speeds, report>>

Upload ==
  /\ pc = "upload"
  /\ \E o \in Outcomes({<<>>}) :
       LET upload == run_cmd(o, TRUE) IN
       /\ pc' = IF upload.returncode = 0 THEN "download" ELSE "cleanup"
  /\ UNCHANGED <<test_results, writes, trace, signal, last_run, stabVars, speedVars, report>>

\* mutant: a downloaded file counts whatever it holds
Verified_ExistsOnly(fs, c, expected) == check_file(c) \in DOMAIN fs

\* a cycle counts when the ".check" file exists and hashes to expected_hash
Verified(fs, c, expected) ==
  /\ check_file(c) \in DOMAIN fs
  /\ sha256(fs[check_file(c)]) = expected

\* the download, then the existence test and the hash comparison
Download(checks, mbps) ==
  /\ pc = "download"
  /\ \E o \in Outcomes({<<>>}), got \in checks, speed \in mbps :
       LET fs == IF got = Absent THEN files ELSE Put(files, check_file(i), got[2]) IN
       /\ files' = fs
       /\ IF Verified(fs, i, expected_hash)
          THEN /\ speeds' = Append(speeds, speed)
               /\ success' = success + 1
          ELSE UNCHANGED <<speeds, success>>
  /\ pc' = "remove"
  /\ UNCHANGED <<test_results, writes, trace, signal, last_run, stabVars, device_name, i,
                 expected_hash, remove_asked, report>>

\* gio remove of the remote copy
Remove ==
  /\ pc = "remove"
  /\ \E o \in Outcomes({<<>>}) : run_cmd(o, FALSE).stdout = <<>>
  /\ remove_asked' = TRUE
  /\ pc' = "cleanup"
  /\ UNCHANGED <<test_results, writes, trace, signal, last_run, stabVars, device_name, i, success,
                 speeds, expected_hash, files, report>>

\* the unlink loop and the end of the iteration; expected_hash is not read
\* again before the next cycle assigns it
Cleanup ==
  /\ pc = "cleanup"
  /\ files' = Unlink(files, {test_file(i), check_file(i)})
  /\ expected_hash' = 0
  /\ i' = i + 1
  /\ pc' = "cycle"
  /\ UNCHANGED <<test_results, writes, trace, signal, last_run, stabVars, device_name,
                 success, speeds, remove_asked, report>>

\* avg_speed > t, with avg_speed = sum(speeds)/len(speeds) or 0
AvgAbove(sp, t) == IF sp = <<>> THEN 0 > t ELSE SumSeq(sp) > t * Len(sp)

\* mutant: the thresholds are inclusive
speed_rating_Inclusive(sp) ==
  IF ~AvgAbove(sp, Tier3Mbps - 1) THEN
     (IF ~AvgAbove(sp, Tier2Mbps - 1) THEN (IF ~AvgAbove(sp, Tier1Mbps - 1) THEN Warn ELSE Star1) ELSE Star2)
  ELSE Star3

speed_rating(sp) ==
  IF AvgAbove(sp, Tier3Mbps) THEN Star3
  ELSE IF AvgAbove(sp, Tier2Mbps) THEN Star2
  ELSE IF AvgAbove(sp, Tier1Mbps) THEN Star1
  ELSE Warn

\* f"{avg_speed:.0f}Mbps ({success}/5)"
speed_str(sp, n) ==
  <<IF sp = <<>> THEN 0 ELSE RoundHalfEven(SumSeq(sp), Len(sp)), "Mbps", n, TEST_CYCLES>>

SpeedResult(sp, n) == [value |-> speed_str(sp, n), status |-> speed_rating(sp)]

\* loop exhausted: aggregate, store, return (the locals go out of scope)
SpeedEnd ==
  /\ pc = "cycle"
  /\ i >= TEST_CYCLES
  /\ Store("speed", SpeedResult(speeds, success))
  /\ i' = 0
  /\ success' = 0
  /\ speeds' = <<>>
  /\ expected_hash' = 0
  /\ pc' = "render"
  /\ UNCHANGED <<trace, signal, last_run, stabVars, device_name, files, remove_asked, report>>

(* --------------------------- print_perfect_table ----------------------- *)
tests == <<"usb_version", "power", "speed", "stability", "pinout", "quality">>

\* mutant: the warning glyph counts as passed
Passing_WithWarn == {Pass, Star1, Star2, Star3, Warn}

Passing == {Pass, Star1, Star2, Star3}

\* the loop over the rows
RECURSIVE passed_count(_, _)
passed_count(rows, tr) ==
  IF rows = <<>> THEN 0
  ELSE (IF tr[rows[1]].status \in Passing THEN 1 ELSE 0) + passed_count(Tail(rows), tr)

\* percentage = passed/6*100 compared with the two thresholds
Verdict(passed) ==
  IF passed * 100 >= PremiumPercent * RowCount THEN "USB-IF PREMIUM CERTIFIED"
  ELSE IF passed * 100 >= CertPercent * RowCount THEN "USB CERTIFIED"
  ELSE "POWER-ONLY CABLE DETECTED"

Report(tr) ==
  [passed  |-> passed_count(tests, tr),
   percent |-> RoundHalfEven(passed_count(tests, tr) * 100, RowCount),
   verdict |-> Verdict(passed_count(tests, tr))]

PrintPerfectTable ==
  /\ pc = "render"
  /\ trace' = Append(trace, "render")
  /\ IF \A k \in 1..Len(tests) : tests[k] \in DOMAIN test_results
     THEN report' = Report(test_results) /\ pc' = "done"
     ELSE report' = report /\ pc' = "aborted"
  /\ UNCHANGED <<test_results, writes, signal, last_run, stabVars, speedVars>>

(* ------------------------------ run_complete_test ---------------------- *)
Next ==
  \/ DetectUsbVersion(RunLsusbOut)
  \/ DetectUsbVersionStore
  \/ DetectPowerSysfs
  \/ StabilityBase
  \/ StabilityPoll
  \/ StabilityEnd
  \/ CheckPinoutData
  \/ EstimateCableQuality
  \/ KillGvfs
  \/ Confirm
  \/ FindMtpDevice
  \/ TransferSpeedTest
  \/ BeginCycle(RunData)
  \/ Upload
  \/ Download(RunChecks, RunSpeeds)
  \/ Remove
  \/ Cleanup
  \/ SpeedEnd
  \/ PrintPerfectTable

Spec == Init /\ [][Next]_vars

(* --------------------- detect_usb_version on every line ---------------- *)
NextVersion ==
  \/ DetectUsbVersion(AllLsusbOut)
  \/ DetectUsbVersionStore

SpecVersion == Init /\ [][NextVersion]_vars

(* --------------------------- run_cmd on every outcome ------------------ *)
AllStdouts == DmesgTexts \cup PinTexts \cup CountTexts \cup GioTexts

\* a caller invoking run_cmd and keeping what it returned
RunCmd ==
  /\ pc = "version"
  /\ last_run = NoRun
  /\ \E o \in Outcomes(AllStdouts), check \in BOOLEAN : last_run' = Ran(o, check)
  /\ UNCHANGED <<pc, test_results, writes, trace, signal, stabVars, speedVars, report>>

NextRunCmd == RunCmd

SpecRunCmd == Init /\ [][NextRunCmd]_vars

(* --------------------- transfer_speed_test on every input -------------- *)
\* the run in which no probe got a signal and the phone is mounted as "a"
InitSpeed ==
  /\ pc = "speed"
  /\ test_results = [k \in Keys \ {"speed"} |->
       CASE k = "usb_version" -> VersionResult(<<>>)
         [] k = "power"       -> PowerResult(<<>>)
         [] k = "stability"   -> StabilityResult(0)
         [] k = "pinout"      -> PinoutResult(<<>>)
         [] k = "quality"     -> QualityResult(<<>>)]
  /\ writes = [k \in Keys |-> IF k = "speed" THEN 0 ELSE 1]
  /\ trace = <<"usb_version", "power", "stability", "pinout", "quality", "kill_gvfs",
               "input", "find_mtp">>
  /\ signal = FALSE
  /\ last_run = NoRun
  /\ lsusb = <<>>
  /\ base_dmesg = <<>>
  /\ error_count = 0
  /\ polls = 0
  /\ device_name = <<"a">>
  /\ i = 0
  /\ success = 0
  /\ speeds = <<>>
  /\ expected_hash = 0
  /\ files = <<>>
  /\ remove_asked = FALSE
  /\ report = <<>>

NextSpeed ==
  \/ TransferSpeedTest
  \/ BeginCycle(AllData)
  \/ Upload
  \/ Download(AllChecks, AllSpeeds)
  \/ Remove
  \/ Cleanup
  \/ SpeedEnd
  \/ PrintPerfectTable

SpecSpeed == InitSpeed /\ [][NextSpeed]_vars

(* ======================================================================= *)
(*                               properties                                 *)
(* ======================================================================= *)
Pos(e) == FirstIn(trace, {e})
Happened(e) == Pos(e) <= Len(trace)
StatusOf(k) == test_results[k].status
Weak == {Unknown, Warn}

\* C1: when print_perfect_table is entered, test_results holds exactly the six
\* keys and each was written exactly once, on the sentinel branch as on the
\* branch where transfer_speed_test ran.
C1_SixKeysOnce ==
  pc = "render" => (DOMAIN test_results = Keys /\ \A k \in Keys : writes[k] = 1)

C1_Witness ==
  /\ pc = "render"
  /\ Happened("no_mtp")
  /\ writes["speed"] = 1
  /\ StatusOf("speed") = Unknown

\* C2: whatever the external commands return, the run never ends aborted
\* before the report is rendered.
C2_NeverAborts == pc # "aborted"

\* C3: passed_count is the number of rows whose status is the pass glyph or a
\* star tier; 6 passed gives the top verdict, 5 the middle one, fewer the
\* bottom one.
C3_Aggregation ==
  pc = "done" =>
    /\ report.passed = Cardinality({k \in Keys : StatusOf(k) \in {Pass, Star1, Star2, Star3}})
    /\ report.passed = RowCount - Cardinality({k \in Keys : StatusOf(k) \in {Unknown, Warn, Fail}})
    /\ report.verdict = (IF report.passed = 6 THEN "USB-IF PREMIUM CERTIFIED"
                         ELSE IF report.passed = 5 THEN "USB CERTIFIED"
                         ELSE "POWER-ONLY CABLE DETECTED")

C3_Witness ==
  /\ pc = "done"
  /\ StatusOf("speed") = Unknown
  /\ \A k \in Keys \ {"speed"} : StatusOf(k) \in {Pass, Star1, Star2, Star3}
  /\ report.passed = 5
  /\ report.percent = 83
  /\ report.verdict = "USB CERTIFIED"

\* C4: a command-reading probe (version, stability, pinout, quality) whose
\* commands all gave no usable signal stores the unknown or the warning
\* status for its key.
C4_NoSignalIsWeak ==
  /\ (pc = "power" /\ ~signal) => StatusOf("usb_version") \in Weak
  /\ (pc = "pinout" /\ ~signal) => StatusOf("stability") \in Weak
  /\ (pc = "quality" /\ ~signal) => StatusOf("pinout") \in Weak
  /\ (pc = "kill_gvfs" /\ ~signal) => StatusOf("quality") \in Weak

\* C5: a timed-out command yields the result (1, empty stdout, "Timeout");
\* a command that exits, also non-zero, yields its own result, with check set
\* or not.
C5_RunCmdResult ==
  /\ last_run.outcome.kind = "timeout" =>
       /\ last_run.result.returncode = 1
       /\ last_run.result.stdout = <<>>
       /\ last_run.result.stderr = "Timeout"
  /\ last_run.outcome.kind = "exit" =>
       /\ last_run.result.returncode = last_run.outcome.returncode
       /\ last_run.result.stdout = last_run.outcome.stdout
       /\ last_run.result.stderr = last_run.outcome.stderr

C5_Witness ==
  /\ last_run.outcome.kind = "timeout"
  /\ last_run.check
  /\ last_run.result.stderr = "Timeout"

\* C6: a cycle is counted (success incremented, a speed appended) exactly when
\* the downloaded file exists and its hash equals the hash of the bytes
\* written for the cycle; a failed upload, a missing download and a download
\* differing in a byte all leave success and speeds as they were.
C6_CountedIffHashMatch ==
  [][ /\ pc = "upload" /\ pc' = "cleanup" => (success' = success /\ speeds' = speeds)
      /\ pc = "download" =>
           LET got == check_file(i) \in DOMAIN files'
               same == got /\ sha256(files'[check_file(i)]) = sha256(files[test_file(i)])
           IN  /\ same => (success' = success + 1 /\ Len(speeds') = Len(speeds) + 1)
               /\ ~same => (success' = success /\ speeds' = speeds)
               /\ (got /\ files'[check_file(i)] # files[test_file(i)])
                    => (success' = success /\ speeds' = speeds)
    ]_vars

C6_Witness ==
  /\ pc = "remove"
  /\ check_file(i) \in DOMAIN files
  /\ files[check_file(i)] # files[test_file(i)]
  /\ Len(files[check_file(i)]) = FileLen
  /\ i = 1
  /\ success = 1

\* C7 as stated: the result depends on the matched token only, by the rules
\* in order; any other matched token gives the token, no match gives
\* "Unknown", both with the unknown status.
C7_Expected(tok, otherStatus) ==
  IF tok = <<>> THEN [value |-> <<"Unknown">>, status |-> Unknown]
  ELSE IF tok[1] = "2" /\ tok[2] = "." THEN [value |-> <<"USB 2.0">>, status |-> Star1]
  ELSE IF \E k \in 1..Len(tok) - 2 : tok[k] = "3" /\ tok[k+1] = "." /\ tok[k+2] = "2"
  THEN [value |-> <<"USB 3.2 Gen 2x2">>, status |-> Star3]
  ELSE IF \E k \in 1..Len(tok) - 2 : tok[k] = "3" /\ tok[k+1] = "." /\ tok[k+2] = "1"
  THEN [value |-> <<"USB 3.2 Gen 2">>, status |-> Star2]
  ELSE IF \E k \in 1..Len(tok) - 2 : tok[k] = "3" /\ tok[k+1] = "." /\ tok[k+2] = "0"
  THEN [value |-> <<"USB 3.2 Gen 1">>, status |-> Star2]
  ELSE [value |-> <<"USB ">> \o tok, status |-> otherStatus]

C7_AsStated ==
  [][pc = "version_store" =>
       test_results'["usb_version"] = C7_Expected(ver_match(lsusb), Unknown)]_vars

\* C7 amended: as stated, except that any other matched token gives "USB "
\* followed by the token with the warning status, and only no match gives
\* "Unknown" with the unknown status.
C7_Amended ==
  [][pc = "version_store" =>
       test_results'["usb_version"] = C7_Expected(ver_match(lsusb), Warn)]_vars

C7_Witness ==
  /\ pc = "power"
  /\ StatusOf("usb_version") = Warn
  /\ test_results["usb_version"].value = <<"USB ", "1", "2", ".", "0">>

\* C8: when a cycle ends, on every path through it, the removal of the remote
\* copy has been requested and no local file of the cycle exists.
C8_CycleLeavesNothing ==
  (pc = "cycle" /\ i > 0) => (remove_asked /\ DOMAIN files = {})

\* C9: the five unconditional probes run once each and, like the kill of the
\* background service, before the confirmation; the speed probe starts only
\* after the confirmation and a discovery that returned a device; without a
\* device it never runs and the speed key holds the placeholder; rendering
\* comes after all of these.
C9_WithSpeed == <<"usb_version", "power", "stability", "pinout", "quality", "kill_gvfs",
                  "input", "find_mtp", "speed", "render">>
C9_WithoutSpeed == <<"usb_version", "power", "stability", "pinout", "quality", "kill_gvfs",
                     "input", "find_mtp", "no_mtp", "render">>
C9_Prefix(s, t) == Len(s) <= Len(t) /\ s = SubSeq(t, 1, Len(s))

C9_Order ==
  /\ C9_Prefix(trace, C9_WithSpeed) \/ C9_Prefix(trace, C9_WithoutSpeed)
  /\ pc \in {"kill_gvfs", "confirm"} =>
       \A k \in {"usb_version", "power", "stability", "pinout", "quality"} : writes[k] = 1
  /\ pc \in {"speed", "cycle", "upload", "download", "remove", "cleanup"} =>
       (Happened("input") /\ Happened("find_mtp") /\ device_name # <<>>)
  /\ Happened("speed") => device_name # <<>>
  /\ Happened("no_mtp") => (test_results["speed"] = NoMtp /\ writes["speed"] = 1)
  /\ pc \in {"done"} => (Happened("render") /\ writes["speed"] = 1)

C9_Witness ==
  /\ pc = "done"
  /\ Happened("speed")
  /\ trace = <<"usb_version", "power", "stability", "pinout", "quality", "kill_gvfs",
               "input", "find_mtp", "speed", "render">>

\* C10: after the five cycles the average is over the successful cycles only
\* (0 without any); above 400 gives tier 3, above 200 tier 2, above 50 tier 1,
\* anything else the warning status; the value carries the success count out
\* of 5, which is the number of recorded speeds and lies in 0..5.
C10_SpeedAggregate ==
  /\ [](success = Len(speeds) /\ success \in 0..5)
  /\ [][(pc = "cycle" /\ pc' = "render") =>
          LET r == test_results'["speed"]
              n == Len(speeds)
              total == SumSeq(speeds)
          IN  /\ r.value[3] = success /\ r.value[3] = n /\ r.value[4] = 5
              /\ n = 0 => (r.value[1] = 0 /\ r.status = Warn)
              /\ n > 0 => /\ 2 * n * r.value[1] - n <= 2 * total
                          /\ 2 * total <= 2 * n * r.value[1] + n
                          /\ r.status = (IF total > 400 * n THEN Star3
                                         ELSE IF total > 200 * n THEN Star2
                                         ELSE IF total > 50 * n THEN Star1
                                         ELSE Warn)
       ]_vars

C10_Witness ==
  /\ pc = "render"
  /\ "speed" \in DOMAIN test_results
  /\ test_results["speed"].value = <<400, "Mbps", 3, 5>>
  /\ StatusOf("speed") = Star2

====
